---- MODULE Spec2Model ----
(***************************************************************************)
(* A feed-forward neural network kept in a dict `model`, as built by the   *)
(* notebook 2-Instructor-deep-learning-from-scratch-pytorch.ipynb:         *)
(* initialize_model, forward, backward and update, called in any order     *)
(* (Spec), and the training cell that loops over them (TrainSpec).         *)
(*                                                                         *)
(* Numbers.  NumPy's float64 entries are modelled in fixed point: the      *)
(* integer v stands for the real v / Scale.  Sums and differences are      *)
(* exact; a product is divided by Scale (rounding down); the logistic      *)
(* function is interpolated between tabulated values, to within 2 / Scale. *)
(*                                                                         *)
(* Arrays.  A 2-D array is [shape |-> <<rows, cols>>, data |-> rows], a    *)
(* failed operation is [error |-> <exception name>].                       *)
(***************************************************************************)
EXTENDS Integers, Sequences, FiniteSets, TLC

VARIABLES
    model,                  \* the dict `model` of the notebook
    dimensions,             \* the list the current model was initialized from
    last,                   \* the last call: its name, argument, outcome, value
    since,                  \* history: the latest of the calls initialize_model,
                            \* forward and update
    train                   \* the training cell: its position (pc), its names X,
                            \* y, eta, n_epochs, epoch, yhat, what it printed
                            \* (losses) and, as history, the calls it made

vars == <<model, dimensions, last, since, train>>

-----------------------------------------------------------------------------
(* Bounds of the model *)

MaxDim == 2       \* largest layer width / row count of an input
MaxLen == 3       \* longest `dimensions` list
MaxBatch == 2     \* largest batch size (column count of x and y)
MaxEpochs == 2    \* largest n_epochs of the training cell
MaxSeed == 1      \* the random states 0 .. MaxSeed of NumPy's generator

Scale == 100

-----------------------------------------------------------------------------
(* NumPy arrays *)

Raise(name) == [error |-> name]

IsError(v) == "error" \in DOMAIN v

\* F(v), with v evaluated once: a Python expression is evaluated when it is
\* reached, not each time its value is used
Bind(v, F(_)) == CHOOSE r \in {F(x) : x \in {v}} : TRUE

Array(r, c, F(_, _)) ==
    [shape |-> <<r, c>>, data |-> [i \in 1..r |-> [j \in 1..c |-> F(i, j)]]]

\* np.ones((r, c))
ones(r, c) == LET One(i, j) == Scale IN Array(r, c, One)

\* np.random.randn(r, c): a negative dimension raises ValueError; the draws
\* depend on the state of NumPy's generator, which the notebook never seeds.
\* Each random state gives one array of values among -1.5, -1.0, .., 1.5.
randn(r, c, seed) ==
    IF r < 0 \/ c < 0 THEN Raise("ValueError")
    ELSE LET Draw(i, j) == (((5 * seed + 3 * i + j) % 7) - 3) * (Scale \div 2)
         IN  Array(r, c, Draw)

\* A.T
Transpose(A0) ==
    LET Of(A) ==
            LET At(i, j) == A.data[j][i]
            IN  IF IsError(A) THEN A ELSE Array(A.shape[2], A.shape[1], At)
    IN  Bind(A0, Of)

RECURSIVE DotSum(_, _, _, _, _)
DotSum(A, B, i, j, k) ==
    IF k = 0 THEN 0
    ELSE A.data[i][k] * B.data[k][j] + DotSum(A, B, i, j, k - 1)

\* A @ B and np.dot(A, B) on 2-D arrays
MatMul(A0, B0) ==
    LET Left(A) ==
            LET Right(B) ==
                    LET Dot(i, j) == DotSum(A, B, i, j, A.shape[2]) \div Scale
                    IN  IF IsError(A) THEN A
                        ELSE IF IsError(B) THEN B
                        ELSE IF A.shape[2] # B.shape[1] THEN Raise("ValueError")
                        ELSE Array(A.shape[1], B.shape[2], Dot)
            IN  Bind(B0, Right)
    IN  Bind(A0, Left)

\* NumPy broadcasting of one dimension: equal, or one of them is 1
BroadcastDim(p, q) ==
    IF p = q THEN p ELSE IF p = 1 THEN q ELSE IF q = 1 THEN p ELSE -1

\* an elementwise binary operation with broadcasting
Broadcast(Op(_, _), A0, B0) ==
    LET Left(A) ==
            LET Right(B) ==
                    LET r == BroadcastDim(A.shape[1], B.shape[1])
                        c == BroadcastDim(A.shape[2], B.shape[2])
                        At(i, j) ==
                            Op(A.data[IF A.shape[1] = 1 THEN 1 ELSE i]
                                     [IF A.shape[2] = 1 THEN 1 ELSE j],
                               B.data[IF B.shape[1] = 1 THEN 1 ELSE i]
                                     [IF B.shape[2] = 1 THEN 1 ELSE j])
                    IN  IF IsError(A) THEN A
                        ELSE IF IsError(B) THEN B
                        ELSE IF r < 0 \/ c < 0 THEN Raise("ValueError")
                        ELSE Array(r, c, At)
            IN  Bind(B0, Right)
    IN  Bind(A0, Left)

Plus(a, b) == a + b
Minus(a, b) == a - b
Times(a, b) == (a * b) \div Scale

Add(A, B) == Broadcast(Plus, A, B)
Sub(A, B) == Broadcast(Minus, A, B)
Mul(A, B) == Broadcast(Times, A, B)

\* scalar * array
ScalarMul(s, A0) ==
    LET Of(A) ==
            LET At(i, j) == Times(s, A.data[i][j])
            IN  IF IsError(A) THEN A ELSE Array(A.shape[1], A.shape[2], At)
    IN  Bind(A0, Of)

\* an elementwise unary function
Map(F(_), A0) ==
    LET Of(A) ==
            LET At(i, j) == F(A.data[i][j])
            IN  IF IsError(A) THEN A ELSE Array(A.shape[1], A.shape[2], At)
    IN  Bind(A0, Of)

-----------------------------------------------------------------------------
(* Activation and loss *)

\* round(Scale / (1 + exp(-x))) at x = -6.0, -5.5, .., 6.0
LogisticKnots ==
    <<0, 0, 1, 1, 2, 3, 5, 8, 12, 18, 27, 38, 50,
      62, 73, 82, 88, 92, 95, 97, 98, 99, 99, 100, 100>>

\* 1 / (1 + exp(-x)) to within 2 / Scale: linear between the knots, 0 and 1
\* beyond them
Logistic(v) ==
    LET half == Scale \div 2
        u    == v + 12 * half
        lo   == LogisticKnots[(u \div half) + 1]
        hi   == LogisticKnots[(u \div half) + 2]
    IN  IF u <= 0 THEN 0
        ELSE IF u >= 24 * half THEN Scale
        ELSE lo + ((hi - lo) * (u % half)) \div half

LogisticPrime(v) == Times(Logistic(v), Scale - Logistic(v))

g(x) == Map(Logistic, x)

g_prime(x) == Map(LogisticPrime, x)

\* the sum of the first n entries of A, row by row
RECURSIVE SumTo(_, _)
SumTo(A, n) ==
    IF n = 0 THEN 0
    ELSE A.data[((n - 1) \div A.shape[2]) + 1][((n - 1) % A.shape[2]) + 1] + SumTo(A, n - 1)

Square(v) == Times(v, v)

\* 0.5 * np.square(yhat - y).sum()
loss(yhat, y) ==
    LET Of(sq) == IF IsError(sq) THEN sq ELSE SumTo(sq, sq.shape[1] * sq.shape[2]) \div 2
    IN  Bind(Map(Square, Sub(yhat, y)), Of)

loss_prime(yhat, y) == Sub(yhat, y)

-----------------------------------------------------------------------------
(* Python lists *)

\* the 0-based index a slice bound i denotes in a list of n entries, step -1
ClampDown(i, n) ==
    LET k == IF i < 0 THEN i + n ELSE i
    IN  IF k < 0 THEN -1 ELSE IF k >= n THEN n - 1 ELSE k

\* the entries at the 0-based indices hi, hi - 1, .., lo + 1
Downward(list, hi, lo) ==
    IF hi <= lo THEN <<>> ELSE [n \in 1..(hi - lo) |-> list[hi - n + 2]]

\* list[start:stop:-1]
SliceDownTo(list, start, stop) ==
    Downward(list, ClampDown(start, Len(list)), ClampDown(stop, Len(list)))

\* list[::-1], whatever the start
SliceDownWhole(list, start) == Downward(list, Len(list) - 1, -1)

\* list[start::-1]
SliceDown(list, start) == Downward(list, ClampDown(start, Len(list)), -1)

\* a list left in the order it was built
Unreversed(list) == list

\* list[::-1]
Reversed(list) == Downward(list, Len(list) - 1, -1)

\* list[i] for a negative i
Index(list, i) ==
    IF i + Len(list) < 0 THEN Raise("IndexError") ELSE list[i + Len(list) + 1]

Min(a, b) == IF a < b THEN a ELSE b

-----------------------------------------------------------------------------
(* The dict `model` *)

HasKey(m, k) == k \in DOMAIN m

SetKey(m, k, v) == [kk \in DOMAIN m \cup {k} |-> IF kk = k THEN v ELSE m[kk]]

DelKey(m, k) == [kk \in DOMAIN m \ {k} |-> m[kk]]

Unbound == [kk \in {} |-> kk]

-----------------------------------------------------------------------------
(* initialize_model *)

RECURSIVE InitLoop(_, _, _, _, _, _)
InitLoop(dims, seed, l, L, weights, biases) ==
    IF l >= L THEN [weights |-> weights, biases |-> biases]
    ELSE LET W == randn(dims[l + 2], dims[l + 1], seed + l)
             b == randn(dims[l + 2], 1, seed + l + 1)
         IN  IF IsError(W) THEN W
             ELSE IF IsError(b) THEN b
             ELSE InitLoop(dims, seed, l + 1, L, Append(weights, W), Append(biases, b))

\* nlayers counts the input layer too
initialize_model_counting_input(dims, seed) ==
    LET r == InitLoop(dims, seed, 0, Len(dims) - 1, <<>>, <<>>)
    IN  IF IsError(r) THEN r
        ELSE [weights |-> r.weights, biases |-> r.biases, nlayers |-> Len(dims)]

initialize_model(dims, seed) ==
    LET L == Len(dims) - 1
        r == InitLoop(dims, seed, 0, L, <<>>, <<>>)
    IN  IF IsError(r) THEN r
        ELSE [weights |-> r.weights, biases |-> r.biases, nlayers |-> L]

-----------------------------------------------------------------------------
(* forward *)

\* z = W * a + b, the elementwise product in place of the matrix product
RECURSIVE ForwardLoopElementwise(_, _, _, _, _, _)
ForwardLoopElementwise(weights, biases, l, a, activations, zs) ==
    IF l > Len(weights) \/ l > Len(biases)
    THEN [a |-> a, activations |-> activations, zs |-> zs]
    ELSE LET Rest(z) ==
                 LET Store(az) ==
                         ForwardLoopElementwise(weights, biases, l + 1, az,
                                                Append(activations, az), Append(zs, z))
                 IN  IF IsError(z) THEN z ELSE Bind(g(z), Store)
         IN  Bind(Add(Mul(weights[l], a), biases[l]), Rest)

RECURSIVE ForwardLoop(_, _, _, _, _, _)
ForwardLoop(weights, biases, l, a, activations, zs) ==
    IF l > Len(weights) \/ l > Len(biases)
    THEN [a |-> a, activations |-> activations, zs |-> zs]
    ELSE LET Rest(z) ==
                 LET Store(az) ==
                         ForwardLoop(weights, biases, l + 1, az,
                                     Append(activations, az), Append(zs, z))
                 IN  IF IsError(z) THEN z ELSE Bind(g(z), Store)
         IN  Bind(Add(MatMul(weights[l], a), biases[l]), Rest)

\* activations = [], the input left out of the list
forward_without_input(x, m) ==
    IF ~HasKey(m, "weights") \/ ~HasKey(m, "biases")
    THEN [status |-> "KeyError", model |-> m]
    ELSE LET r == ForwardLoop(m["weights"], m["biases"], 1, x, <<>>, <<>>)
         IN  IF IsError(r) THEN [status |-> r.error, model |-> m]
             ELSE [status |-> "ok", ret |-> r.a,
                   model |-> SetKey(SetKey(m, "activations", r.activations),
                                    "w_inputs", r.zs)]

\* the weighted inputs stored under 'z_inputs', the key the notebook's text
\* names for them
forward_as_documented(x, m) ==
    IF ~HasKey(m, "weights") \/ ~HasKey(m, "biases")
    THEN [status |-> "KeyError", model |-> m]
    ELSE LET r == ForwardLoop(m["weights"], m["biases"], 1, x, <<x>>, <<>>)
         IN  IF IsError(r) THEN [status |-> r.error, model |-> m]
             ELSE [status |-> "ok", ret |-> r.a,
                   model |-> SetKey(SetKey(m, "activations", r.activations),
                                    "z_inputs", r.zs)]

\* the outcome of forward(x, m): the exception raised, if any, the value
\* returned and the dict as the call leaves it
forward(x, m) ==
    IF ~HasKey(m, "weights") \/ ~HasKey(m, "biases")
    THEN [status |-> "KeyError", model |-> m]
    ELSE LET r == ForwardLoop(m["weights"], m["biases"], 1, x, <<x>>, <<>>)
         IN  IF IsError(r) THEN [status |-> r.error, model |-> m]
             ELSE [status |-> "ok", ret |-> r.a,
                   model |-> SetKey(SetKey(m, "activations", r.activations),
                                    "w_inputs", r.zs)]

-----------------------------------------------------------------------------
(* backward *)

\* grad_b, grad_W = delta @ np.ones((Nbatch, 1)), np.dot(delta, a.T)
GradPair(delta, a, Nbatch) ==
    LET WithB(grad_b) ==
            LET WithW(grad_W) ==
                    IF IsError(grad_W) THEN grad_W
                    ELSE [delta |-> delta, grad_b |-> grad_b, grad_W |-> grad_W]
            IN  IF IsError(grad_b) THEN grad_b
                ELSE Bind(MatMul(delta, Transpose(a)), WithW)
    IN  IF IsError(delta) THEN delta
        ELSE Bind(MatMul(delta, ones(Nbatch, 1)), WithB)

RECURSIVE BackwardLoop(_, _, _, _, _, _, _, _)
BackwardLoop(Ws, zs, as, k, delta, Nbatch, grad_weights, grad_biases) ==
    IF k > Min(Len(Ws), Min(Len(zs), Len(as)))
    THEN [grad_weights |-> grad_weights, grad_biases |-> grad_biases]
    ELSE LET Rest(p) ==
                 IF IsError(p) THEN p
                 ELSE BackwardLoop(Ws, zs, as, k + 1, p.delta, Nbatch,
                                   Append(grad_weights, p.grad_W),
                                   Append(grad_biases, p.grad_b))
             WithDelta(d) == Bind(GradPair(d, as[k], Nbatch), Rest)
         IN  Bind(Mul(MatMul(Transpose(Ws[k]), delta), g_prime(zs[k])), WithDelta)

\* the gradients backward(y, m) computes, or the exception it raises
Gradients(y, m) ==
    IF ~HasKey(m, "activations") THEN Raise("KeyError")
    ELSE IF ~HasKey(m, "w_inputs") THEN Raise("KeyError")
    ELSE
    LET Nbatch == y.shape[2]
        yhat   == Index(m["activations"], -1)
        z      == Index(m["w_inputs"], -1)
        a      == Index(m["activations"], -2)
        Rest(p) ==
            IF IsError(p) THEN p
            ELSE BackwardLoop(SliceDownTo(m["weights"], -1, 0),
                              SliceDown(m["w_inputs"], -2),
                              SliceDown(m["activations"], -3),
                              1, p.delta, Nbatch, <<p.grad_W>>, <<p.grad_b>>)
        WithDelta(delta) == Bind(GradPair(delta, a, Nbatch), Rest)
    IN  IF IsError(yhat) THEN yhat
        ELSE IF IsError(z) THEN z
        ELSE IF IsError(a) THEN a
        ELSE Bind(Mul(loss_prime(yhat, y), g_prime(z)), WithDelta)

\* the gradients stored under 'weights' and 'biases'
backward_over_weights(y, m) ==
    LET r == Gradients(y, m)
    IN  IF IsError(r) THEN [status |-> r.error, model |-> m]
        ELSE [status |-> "ok",
              model |-> SetKey(SetKey(m, "weights", Reversed(r.grad_weights)),
                               "biases", Reversed(r.grad_biases))]

backward(y, m) ==
    LET r == Gradients(y, m)
    IN  IF IsError(r) THEN [status |-> r.error, model |-> m]
        ELSE [status |-> "ok",
              model |-> SetKey(SetKey(m, "grad_weights", Reversed(r.grad_weights)),
                               "grad_biases", Reversed(r.grad_biases))]

-----------------------------------------------------------------------------
(* update *)

\* for key in keys: del m[key]
RECURSIVE DelKeys(_, _, _)
DelKeys(m, keys, i) ==
    IF i > Len(keys) THEN [status |-> "ok", model |-> m]
    ELSE IF ~HasKey(m, keys[i]) THEN [status |-> "KeyError", model |-> m]
    ELSE DelKeys(DelKey(m, keys[i]), keys, i + 1)

RECURSIVE UpdateLoop(_, _, _, _, _, _, _, _)
UpdateLoop(eta, Ws, bs, dWs, dbs, k, new_weights, new_biases) ==
    IF k > Min(Min(Len(Ws), Len(bs)), Min(Len(dWs), Len(dbs)))
    THEN [new_weights |-> new_weights, new_biases |-> new_biases]
    ELSE LET W == Sub(Ws[k], ScalarMul(eta, dWs[k]))
             b == Sub(bs[k], ScalarMul(eta, dbs[k]))
         IN  IF IsError(W) THEN W
             ELSE IF IsError(b) THEN b
             ELSE UpdateLoop(eta, Ws, bs, dWs, dbs, k + 1,
                             Append(new_weights, W), Append(new_biases, b))

\* the part of update after the keys are deleted
Descend(eta, m) ==
    IF \E key \in {"weights", "biases", "grad_weights", "grad_biases"} : ~HasKey(m, key)
    THEN [status |-> "KeyError", model |-> m]
    ELSE LET r == UpdateLoop(eta, m["weights"], m["biases"],
                             m["grad_weights"], m["grad_biases"], 1, <<>>, <<>>)
         IN  IF IsError(r) THEN [status |-> r.error, model |-> m]
             ELSE [status |-> "ok",
                   model |-> SetKey(SetKey(m, "weights", r.new_weights),
                                    "biases", r.new_biases)]

\* the keys deleted in another order
update_reordered(eta, m) ==
    LET d == DelKeys(m, <<"activations", "grad_weights", "w_inputs", "grad_biases">>, 1)
    IN  IF d.status # "ok" THEN d ELSE Descend(eta, d.model)

\* a missing key is passed over: try: del model[key] / except KeyError: pass
update_forgiving(eta, m) ==
    LET d == DelKeys(m, <<"activations", "w_inputs", "grad_weights", "grad_biases">>, 1)
    IN  IF d.status # "ok" THEN [status |-> "ok", model |-> d.model]
        ELSE Descend(eta, d.model)

\* only the gradients are deleted
update_keeping_forward(eta, m) ==
    LET d == DelKeys(m, <<"grad_weights", "grad_biases">>, 1)
    IN  IF d.status # "ok" THEN d ELSE Descend(eta, d.model)

update(eta, m) ==
    LET d == DelKeys(m, <<"activations", "w_inputs", "grad_weights", "grad_biases">>, 1)
    IN  IF d.status # "ok" THEN d ELSE Descend(eta, d.model)

-----------------------------------------------------------------------------
(* Inputs *)

RECURSIVE SeqsUpTo(_, _)
SeqsUpTo(S, n) ==
    IF n = 0 THEN {<<>>}
    ELSE LET shorter == SeqsUpTo(S, n - 1)
         IN  shorter \cup {Append(s, e) : s \in {t \in shorter : Len(t) = n - 1}, e \in S}

\* the lists given to initialize_model: every list of positive widths of at
\* most MaxLen entries (the empty list and the single widths among them), and
\* each of the shorter ones with one entry replaced by 0 or by -1
DimensionInputs ==
    LET positive == SeqsUpTo(1 .. MaxDim, MaxLen)
        places   == {<<d, k>> \in positive \X (1 .. MaxLen) : k <= Len(d) /\ Len(d) < MaxLen}
    IN  positive \cup {[p[1] EXCEPT ![p[2]] = v] : p \in places, v \in {0, -1}}

ValidDimensions(dims) == Len(dims) >= 2 /\ \A i \in 1..Len(dims) : dims[i] > 0

\* np.random.rand(r, n): values in [0.0, 1.0), here among 0.0, 0.25, 0.5, 0.75
rand(r, n, seed) ==
    LET Draw(i, j) == ((seed + i + 2 * j) % 4) * (Scale \div 4) IN Array(r, n, Draw)

\* np.zeros((r, n)); y[k] = 1
one_hot(r, n, k) ==
    LET At(i, j) == IF i = k THEN Scale ELSE 0 IN Array(r, n, At)

\* the random states NumPy's generator may be in when a draw is made
Seeds == 0 .. MaxSeed

XInputs == {rand(r, n, seed) : r \in 1..MaxDim, n \in 1..MaxBatch, seed \in Seeds}

YInputs == {one_hot(r, n, 1) : r \in 1..MaxDim, n \in 1..MaxBatch}

\* learning rates 0.0 and 0.5
EtaInputs == {0, Scale \div 2}

-----------------------------------------------------------------------------
(* The calls *)

\* the name `model` is bound to a dict
Bound == HasKey(model, "nlayers")

\* what is recorded of a call: its name, its argument, the exception it
\* raised ("ok" if none), the keys `model` held when it was made and, for a
\* forward that returned, the value returned (ret)
Call(op, arg, status) ==
    [op |-> op, arg |-> arg, status |-> status, keys |-> DOMAIN model]

\* the training cell has not been run
Idle == [pc |-> "idle"]

Init ==
    /\ model = Unbound
    /\ dimensions = <<>>
    /\ last = Call("none", <<>>, "ok")
    /\ since = "none"
    /\ train = Idle

\* model = initialize_model(dimensions)
InitializeModel ==
    /\ \E dims \in DimensionInputs, seed \in Seeds :
       LET r == initialize_model(dims, seed)
       IN  IF IsError(r)
           THEN /\ last' = Call("initialize_model", dims, r.error)
                /\ UNCHANGED <<model, dimensions, since>>
           ELSE /\ model' = r
                /\ dimensions' = dims
                /\ last' = Call("initialize_model", dims, "ok")
                /\ since' = "initialize_model"
    /\ UNCHANGED train

\* yhat, model = forward(x, model)
Forward ==
    /\ Bound
    /\ \E x \in XInputs :
       LET r == forward(x, model)
       IN  /\ model' = r.model
           /\ last' = IF r.status = "ok"
                      THEN Call("forward", x, "ok") @@ [ret |-> r.ret]
                      ELSE Call("forward", x, r.status)
    /\ since' = "forward"
    /\ UNCHANGED <<dimensions, train>>

\* model = backward(y, model)
Backward ==
    /\ Bound
    /\ \E y \in YInputs :
       LET r == backward(y, model)
       IN  /\ model' = r.model
           /\ last' = Call("backward", y, r.status)
    /\ UNCHANGED <<dimensions, since, train>>

\* model = update(eta, model)
Update ==
    /\ Bound
    /\ \E eta \in EtaInputs :
       LET r == update(eta, model)
       IN  /\ model' = r.model
           /\ last' = Call("update", eta, r.status)
    /\ since' = "update"
    /\ UNCHANGED <<dimensions, train>>

Next ==
    \/ InitializeModel
    \/ Forward
    \/ Backward
    \/ Update

Spec == Init /\ [][Next]_vars

-----------------------------------------------------------------------------
(* The training cell *)

\* X, y, eta = ...; model = initialize_model([...]); n_epochs = ...
\* The cell names literal widths, and a batch X, y that fits them.
TrainSetup ==
    /\ train.pc = "idle"
    /\ \E dims \in {d \in DimensionInputs : ValidDimensions(d)},
          n \in 1 .. MaxBatch, eta \in EtaInputs,
          n_epochs \in 0 .. MaxEpochs, seed \in Seeds, xseed \in Seeds :
          /\ model' = initialize_model(dims, seed)
          /\ dimensions' = dims
          /\ last' = Call("initialize_model", dims, "ok")
          /\ train' = [pc |-> "for",
                       X |-> rand(dims[1], n, xseed),
                       y |-> one_hot(dims[Len(dims)], n, 1),
                       eta |-> eta, n_epochs |-> n_epochs,
                       iter |-> 0, losses |-> <<>>, calls |-> <<>>]
    /\ since' = "initialize_model"

\* for epoch in range(n_epochs): iter counts the values range has yielded,
\* epoch is iter - 1
TrainFor ==
    /\ train.pc = "for"
    /\ train' = IF train.iter < train.n_epochs
                THEN [train EXCEPT !.pc = "forward", !.iter = @ + 1]
                ELSE [train EXCEPT !.pc = "done"]
    /\ UNCHANGED <<model, dimensions, last, since>>

\* yhat, model = forward(X, model)
TrainForward ==
    /\ train.pc = "forward"
    /\ LET r == forward(train.X, model)
       IN  /\ model' = r.model
           /\ last' = IF r.status = "ok"
                      THEN Call("forward", train.X, "ok") @@ [ret |-> r.ret]
                      ELSE Call("forward", train.X, r.status)
           /\ train' = IF r.status = "ok"
                       THEN [yhat |-> r.ret] @@
                            [train EXCEPT !.pc = "backward",
                                          !.calls = Append(@, "forward")]
                       ELSE [train EXCEPT !.pc = "raised",
                                          !.calls = Append(@, "forward")]
    /\ since' = "forward"
    /\ UNCHANGED dimensions

\* model = backward(y, model)
TrainBackward ==
    /\ train.pc = "backward"
    /\ LET r == backward(train.y, model)
       IN  /\ model' = r.model
           /\ last' = Call("backward", train.y, r.status)
           /\ train' = [train EXCEPT !.pc = IF r.status = "ok" THEN "update" ELSE "raised",
                                     !.calls = Append(@, "backward")]
    /\ UNCHANGED <<dimensions, since>>

\* model = update(eta, model); err = loss(yhat, y); print(epoch, err)
TrainUpdate ==
    /\ train.pc = "update"
    /\ LET r == update(train.eta, model)
       IN  /\ model' = r.model
           /\ last' = Call("update", train.eta, r.status)
           /\ train' = IF r.status = "ok"
                       THEN [train EXCEPT
                                !.pc = "for",
                                !.calls = Append(@, "update"),
                                !.losses = Append(@, <<train.iter - 1,
                                                       loss(train.yhat, train.y)>>)]
                       ELSE [train EXCEPT !.pc = "raised",
                                          !.calls = Append(@, "update")]
    /\ since' = "update"
    /\ UNCHANGED dimensions

TrainNext ==
    \/ TrainSetup
    \/ TrainFor
    \/ TrainForward
    \/ TrainBackward
    \/ TrainUpdate

TrainSpec == Init /\ [][TrainNext]_vars

-----------------------------------------------------------------------------
(* Properties *)

PermanentKeys == {"weights", "biases", "nlayers"}

TransientKeys == {"activations", "w_inputs", "grad_weights", "grad_biases"}

\* the output activation a_L that the latest forward stored
Output == Index(model["activations"], -1)

\* C1: on a model of valid dimensions that carries what forward and backward
\* stored, update completes without error and leaves exactly the fields
\* weights, biases and nlayers.
C1_StepCompletes ==
    (/\ last.op = "update"
     /\ ValidDimensions(dimensions)
     /\ TransientKeys \subseteq last.keys)
    => (last.status = "ok" /\ DOMAIN model = PermanentKeys)

\* C2: update(eta, model) on a model that carries the gradients replaces every
\* weight W_l by W_l - eta * grad_weights[l] and every bias b_l by
\* b_l - eta * grad_biases[l], the gradients being those stored before the call.
C2_UpdateDescends ==
    [][(/\ last'.op = "update"
        /\ ValidDimensions(dimensions)
        /\ HasKey(model, "grad_weights")
        /\ HasKey(model, "grad_biases"))
       => \A l \in 1 .. model["nlayers"] :
            /\ model'["weights"][l] =
                   Sub(model["weights"][l], ScalarMul(last'.arg, model["grad_weights"][l]))
            /\ model'["biases"][l] =
                   Sub(model["biases"][l], ScalarMul(last'.arg, model["grad_biases"][l]))]_vars

\* C3: on a model of L layers, forward(x, model) with x of dimensions[0] rows
\* stores L + 1 activations, the first of them x, and L weighted inputs, and
\* returns the last activation, of shape (dimensions[L], batch size of x).
C3_ForwardStores ==
    (/\ last.op = "forward"
     /\ ValidDimensions(dimensions)
     /\ last.arg.shape[1] = dimensions[1])
    => LET L == model["nlayers"]
       IN  /\ last.status = "ok"
           /\ Len(model["activations"]) = L + 1
           /\ model["activations"][1] = last.arg
           /\ Len(model["w_inputs"]) = L
           /\ last.ret = model["activations"][L + 1]
           /\ last.ret.shape = <<dimensions[L + 1], last.arg.shape[2]>>

C3_Witness ==
    /\ last.op = "forward"
    /\ last.status = "ok"
    /\ ValidDimensions(dimensions)
    /\ model["nlayers"] = 2
    /\ last.arg.shape = <<dimensions[1], 2>>

\* C4: for every L >= 1, backward(y, model) after a forward, with y of the
\* shape of the output of that forward, stores L weight gradients and L bias
\* gradients, each of the shape of the weight matrix or bias vector of its layer.
C4_BackwardShapes ==
    (/\ last.op = "backward"
     /\ ValidDimensions(dimensions)
     /\ "activations" \in last.keys
     /\ last.arg.shape = Output.shape)
    => LET L == model["nlayers"]
       IN  /\ last.status = "ok"
           /\ Len(model["grad_weights"]) = L
           /\ Len(model["grad_biases"]) = L
           /\ \A l \in 1 .. L :
                /\ model["grad_weights"][l].shape = model["weights"][l].shape
                /\ model["grad_biases"][l].shape = model["biases"][l].shape

C4_Witness ==
    /\ last.op = "backward"
    /\ last.status = "ok"
    /\ ValidDimensions(dimensions)
    /\ model["nlayers"] = 1
    /\ last.arg.shape = Output.shape
    /\ last.arg.shape[2] = 2

\* C5: for a list of at least two positive widths, initialize_model returns a
\* model with nlayers = len(dimensions) - 1, that many weight matrices and bias
\* vectors, weight l of shape (dimensions[l], dimensions[l-1]), bias l of shape
\* (dimensions[l], 1), and no transient field.
C5_InitializeShapes ==
    (last.op = "initialize_model" /\ ValidDimensions(last.arg))
    => LET L == Len(last.arg) - 1
       IN  /\ last.status = "ok"
           /\ DOMAIN model = PermanentKeys
           /\ model["nlayers"] = L
           /\ Len(model["weights"]) = L
           /\ Len(model["biases"]) = L
           /\ \A l \in 1 .. L :
                /\ model["weights"][l].shape = <<last.arg[l + 1], last.arg[l]>>
                /\ model["biases"][l].shape = <<last.arg[l + 1], 1>>

C5_Witness ==
    /\ last.op = "initialize_model"
    /\ last.status = "ok"
    /\ "activations" \in last.keys
    /\ ValidDimensions(last.arg)
    /\ Len(last.arg) = 3
    /\ last.arg[1] # last.arg[2]

\* C6: after any sequence of forward, backward and update calls, failing ones
\* included, grad_weights is present exactly when grad_biases is, and
\* activations exactly when the weighted inputs are.
C6_TransientsPaired ==
    Bound =>
        /\ HasKey(model, "grad_weights") <=> HasKey(model, "grad_biases")
        /\ HasKey(model, "activations") <=> HasKey(model, "w_inputs")

C6_Witness ==
    /\ last.op = "update"
    /\ last.status # "ok"
    /\ last.keys = PermanentKeys \cup TransientKeys
    /\ DOMAIN model = PermanentKeys

\* C7: update on a model without gradients (fresh, or after forward alone)
\* fails with a KeyError.
C7_UpdateNeedsGradients ==
    (last.op = "update" /\ "grad_weights" \notin last.keys /\ "grad_biases" \notin last.keys)
    => last.status = "KeyError"

C7_Witness ==
    /\ last.op = "update"
    /\ last.status = "KeyError"
    /\ last.keys = PermanentKeys \cup {"activations", "w_inputs"}

\* C8: backward on a freshly initialized model, or when no forward was called
\* since the last update, fails with a KeyError and stores no gradients.
C8_BackwardNeedsForward ==
    (last.op = "backward" /\ since # "forward")
    => /\ last.status = "KeyError"
       /\ ~HasKey(model, "grad_weights")
       /\ ~HasKey(model, "grad_biases")

C8_Witness ==
    /\ last.op = "backward"
    /\ since = "update"
    /\ last.status = "KeyError"
    /\ ValidDimensions(dimensions)

\* C9: backward fails with a ValueError for every y whose shape differs from
\* the shape of the output activation the preceding forward stored.
C9_BackwardRejectsShape ==
    (/\ last.op = "backward"
     /\ ValidDimensions(dimensions)
     /\ "activations" \in last.keys
     /\ last.arg.shape # Output.shape)
    => last.status = "ValueError"

\* C10: forward fails with a ValueError whenever the row count of x differs
\* from dimensions[0], whatever the batch size.
C10_ForwardRejectsRows ==
    (/\ last.op = "forward"
     /\ ValidDimensions(dimensions)
     /\ last.arg.shape[1] # dimensions[1])
    => last.status = "ValueError"

C10_Witness ==
    /\ last.op = "forward"
    /\ last.status = "ValueError"
    /\ ValidDimensions(dimensions)
    /\ last.arg.shape[1] # dimensions[1]
    /\ last.arg.shape[2] = 2

\* C11: initialize_model raises, and returns no model (`model` keeps the keys
\* it had, none if it was not bound), whenever dimensions has fewer than two
\* entries or holds a zero or negative entry.
C11_InitializeRejects ==
    (last.op = "initialize_model" /\ ~ValidDimensions(last.arg))
    => (last.status # "ok" /\ DOMAIN model = last.keys)

\* n repetitions of forward, backward, update
Epochs(n) == [k \in 1 .. 3 * n |-> <<"forward", "backward", "update">>[((k - 1) % 3) + 1]]

\* C12: the training loop on a batch that fits the model raises nothing and
\* ends after exactly n_epochs iterations, each of them the calls forward,
\* backward, update in this order, with one loss value printed per epoch.
C12_LoopRuns ==
    /\ train.pc # "raised"
    /\ train.pc = "done" =>
         /\ train.iter = train.n_epochs
         /\ train.calls = Epochs(train.n_epochs)
         /\ Len(train.losses) = train.n_epochs
         /\ \A k \in 1 .. train.n_epochs : train.losses[k][1] = k - 1

\* C13: on a model of valid dimensions, after a forward and a backward with y
\* of the shape of the output, update with learning rate 0 completes and
\* leaves every weight matrix and every bias vector as it was.
C13_ZeroRateRoundTrip ==
    [][(/\ last.op = "backward"
        /\ last.status = "ok"
        /\ since = "forward"
        /\ ValidDimensions(dimensions)
        /\ last.arg.shape = Output.shape
        /\ last'.op = "update"
        /\ last'.arg = 0)
       => /\ last'.status = "ok"
          /\ model'["weights"] = model["weights"]
          /\ model'["biases"] = model["biases"]]_vars

\* C14 (as the source has it): forward stores the weighted inputs under
\* 'w_inputs', the key backward reads and update deletes, and under no other
\* key; a backward called directly after a forward that returned never fails
\* for a missing key.
C14_SameKey ==
    [][/\ (last'.op = "forward" /\ last'.status = "ok")
          => (HasKey(model', "w_inputs") /\ ~HasKey(model', "z_inputs"))
       /\ (last.op = "forward" /\ last.status = "ok" /\ last'.op = "backward")
          => last'.status # "KeyError"
       /\ (last.op = "forward" /\ last.status = "ok" /\ last'.op = "update")
          => ~HasKey(model', "w_inputs")]_vars

C14_Witness ==
    /\ last.op = "backward"
    /\ last.status = "ok"
    /\ since = "forward"
    /\ ValidDimensions(dimensions)
    /\ Len(model["w_inputs"]) = 2

\* C14 (as stated): a backward called directly after a forward that returned,
\* with y of the shape of the value returned, does not find the weighted
\* inputs the forward stored: it fails for a missing key.
C14_BackwardMissesInputs ==
    [][(/\ last.op = "forward"
        /\ last.status = "ok"
        /\ ValidDimensions(dimensions)
        /\ last'.op = "backward"
        /\ last'.arg.shape = last.ret.shape)
       => last'.status = "KeyError"]_vars

\* The quantities of layer l in `model`: W_l, z_l and a_l (a_0 is the input)
LayerW(l) == model["weights"][l]
LayerZ(l) == model["w_inputs"][l]
LayerA(l) == model["activations"][l + 1]

\* the error of layer l for the target y:
\*   delta_L = (a_L - y) * g'(z_L),  delta_l = (W_{l+1}^T delta_{l+1}) * g'(z_l)
RECURSIVE Delta(_, _)
Delta(l, y) ==
    IF l >= model["nlayers"]
    THEN Mul(Sub(LayerA(l), y), g_prime(LayerZ(l)))
    ELSE Mul(MatMul(Transpose(LayerW(l + 1)), Delta(l + 1, y)), g_prime(LayerZ(l)))

RECURSIVE RowTo(_, _, _)
RowTo(A, i, n) == IF n = 0 THEN 0 ELSE A.data[i][n] + RowTo(A, i, n - 1)

\* the column vector of the sums of the rows of A
RowSum(A) ==
    LET At(i, j) == RowTo(A, i, A.shape[2]) IN Array(A.shape[1], 1, At)

\* C15: after backward(y, model) on a model of L layers, with y of the shape
\* of the output, entry l of grad_weights is delta_l * transpose(a_{l-1}) and
\* entry l of grad_biases is the row sum of delta_l, for every l in 1 .. L,
\* where delta_l = transpose(W_{l+1}) * delta_{l+1} (.) g'(z_l) below layer L.
C15_BackwardPairs ==
    (/\ last.op = "backward"
     /\ last.status = "ok"
     /\ ValidDimensions(dimensions)
     /\ last.arg.shape = Output.shape)
    => /\ Len(model["grad_weights"]) = model["nlayers"]
       /\ Len(model["grad_biases"]) = model["nlayers"]
       /\ \A l \in 1 .. model["nlayers"] :
            /\ model["grad_weights"][l] =
                   MatMul(Delta(l, last.arg), Transpose(LayerA(l - 1)))
            /\ model["grad_biases"][l] = RowSum(Delta(l, last.arg))

C15_Witness ==
    /\ last.op = "backward"
    /\ last.status = "ok"
    /\ ValidDimensions(dimensions)
    /\ last.arg.shape = Output.shape
    /\ model["nlayers"] = 2
    /\ dimensions[1] # dimensions[2]
    /\ \E i \in 1 .. dimensions[2], j \in 1 .. dimensions[1] :
          model["grad_weights"][1].data[i][j] # 0

\* C16: a call of forward or of backward, whether it returns or raises, leaves
\* weights, biases and nlayers as they were; a call on the model that changes
\* one of them is a call of update (initialize_model takes no model: it
\* builds a new one).
C16_PermanentKept ==
    [][/\ last'.op \in {"forward", "backward"}
          => \A k \in PermanentKeys : HasKey(model', k) /\ model'[k] = model[k]
       /\ (/\ Bound
           /\ last'.op # "initialize_model"
           /\ \E k \in PermanentKeys : ~HasKey(model', k) \/ model'[k] # model[k])
          => last'.op = "update"]_vars

C16_Witness ==
    /\ last.op = "backward"
    /\ last.status = "ValueError"
    /\ ValidDimensions(dimensions)
    /\ model["nlayers"] = 2
    /\ HasKey(model, "grad_weights")

\* C17: on a model of valid dimensions, a call of forward, backward or update
\* that raises leaves the dict as it was before the call, with the same keys
\* and the same values.
C17_FailureKeepsModel ==
    [][(/\ ValidDimensions(dimensions)
        /\ last'.op \in {"forward", "backward", "update"}
        /\ last'.status # "ok")
       => model' = model]_vars

====
